---- MODULE Spec2Model ----
(***************************************************************************)
(* A model of the reference-counted checkpoint store of                    *)
(* packages/arb-avm-cpp/avm/src/checkpoint/checkpointstorage.cpp.          *)
(*                                                                         *)
(* The engine (a RocksDB TransactionDB) is a map from key bytes to value   *)
(* bytes.  A plain Get sees committed data only; a transaction's Put or    *)
(* Delete locks its key until the transaction commits, and Commit applies  *)
(* the write atomically.  Every public operation is cut at its engine      *)
(* interactions: the read (getValue), the begin of the transaction, the    *)
(* Put or Delete, the Commit, and the return.                              *)
(*                                                                         *)
(* assert is modelled as compiled in: a failed assertion terminates the    *)
(* process, after which no action is enabled.                              *)
(***************************************************************************)
EXTENDS Integers, Sequences, FiniteSets, TLC

VARIABLES
    db,       \* the engine's committed content: key bytes -> record bytes
    pc,       \* per thread: where the thread is in its current operation
    call,     \* per thread: the frame (locals) of the operation in progress
    txn,      \* per thread: the state of the rocksdb::Transaction it owns
    res,      \* per thread: the result the last completed operation returned
    crashed,  \* which assertion terminated the process ("none" while running)
    net,      \* per key: successful saves and increments minus successful deletes
    budget    \* number of operations the callers may still invoke

vars == <<db, pc, call, txn, res, crashed, net, budget>>

(***************************************************************************)
(* Bounds of the model.                                                    *)
(***************************************************************************)
\* a single caller invokes at most MaxOps operations in a behaviour
MaxOps == 4
\* concurrent callers invoke at most MaxConcOps operations between them
MaxConcOps == 2
\* the store may open holding counts 1..MaxStart ...
MaxStart == 1
\* ... or one of the TopWindow + 1 largest counts a uint32_t can hold
TopWindow == 0

Threads == {"t1", "t2"}
\* hash keys and values are opaque byte strings
Keys == {<<1>>, <<2>>}
Values == {<<>>, <<7>>}

(***************************************************************************)
(* uint32_t.  TLC's integers stop at 2^31 - 1, so a uint32_t is kept as    *)
(* two 16-bit halves; arithmetic is modulo 2^32 as in C++.                 *)
(***************************************************************************)
ByteBase == 256
CountBytes == 4
Half == ByteBase * ByteBase

U32(n) == [hi |-> 0, lo |-> n]
U32Max == [hi |-> Half - 1, lo |-> Half - 1]

\* c + 1 on uint32_t: wraps to 0 at 2^32 - 1
U32Inc(c) ==
    IF c.lo = Half - 1
    THEN [hi |-> (c.hi + 1) % Half, lo |-> 0]
    ELSE [hi |-> c.hi, lo |-> c.lo + 1]

\* c - 1 on uint32_t: wraps to 2^32 - 1 at 0
U32Dec(c) ==
    IF c.lo = 0
    THEN [hi |-> (c.hi + Half - 1) % Half, lo |-> Half - 1]
    ELSE [hi |-> c.hi, lo |-> c.lo - 1]

\* c < n for a small n
U32Less(c, n) == c.hi = 0 /\ c.lo < n

\* U32Max - n for a small n
U32FromTop(n) == [hi |-> Half - 1, lo |-> Half - 1 - n]

(***************************************************************************)
(* The record encoding: the count's 4 bytes (little-endian host), then the *)
(* value bytes.                                                            *)
(***************************************************************************)
\* an encoding that writes the count's most significant byte first
serializeCountAndValue_big_endian(count, value) ==
    << count.hi \div ByteBase, count.hi % ByteBase,
       count.lo \div ByteBase, count.lo % ByteBase >> \o value

serializeCountAndValue(count, value) ==
    << count.lo % ByteBase, count.lo \div ByteBase,
       count.hi % ByteBase, count.hi \div ByteBase >> \o value

\* Defined for the empty string and for strings of at least CountBytes bytes,
\* the only ones the store ever holds.
parseCountAndValue(string_value) ==
    IF string_value = <<>>
    THEN [ref_count |-> U32(0), saved_value |-> <<>>]
    ELSE [ref_count |->
              [lo |-> string_value[1] + ByteBase * string_value[2],
               hi |-> string_value[3] + ByteBase * string_value[4]],
          saved_value |-> SubSeq(string_value, CountBytes + 1, Len(string_value))]

(***************************************************************************)
(* The engine.                                                             *)
(***************************************************************************)
\* what an engine interaction can report besides success and key-absent
EngineFailures == {"IOError"}
EngineOutcomes == {"ok"} \cup EngineFailures

\* txn_db->Get: gs is the engine's own outcome for this read ("ok" when the
\* engine works); a working engine reports NotFound for an absent key.
EngineGet(store, key, gs) ==
    IF gs # "ok" THEN [status |-> gs, value |-> <<>>]
    ELSE IF key \notin DOMAIN store THEN [status |-> "NotFound", value |-> <<>>]
    ELSE [status |-> "ok", value |-> store[key]]

\* a Put that lands on the first key whatever key it was given
EnginePut_first_key(store, key, value) ==
    [x \in DOMAIN store \cup {<<1>>} |-> IF x = <<1>> THEN value ELSE store[x]]

\* the committed content after a transaction holding one Put commits
EnginePut(store, key, value) ==
    [x \in DOMAIN store \cup {key} |-> IF x = key THEN value ELSE store[x]]

\* a Delete that empties the whole store
EngineDelete_all(store, key) == [x \in {} |-> <<>>]

\* the committed content after a transaction holding one Delete commits
EngineDelete(store, key) ==
    [x \in DOMAIN store \ {key} |-> store[x]]

\* a transaction's Put or Delete waits while another transaction holds the key
KeyLocked(t, key) ==
    \E u \in Threads \ {t} : txn[u].state = "Written" /\ txn[u].key = key

(***************************************************************************)
(* getValue, as a function of the committed content and the engine's       *)
(* outcome for the read.                                                   *)
(***************************************************************************)
getValue(store, hash_key, gs) ==
    LET get == EngineGet(store, hash_key, gs) IN
    IF get.status = "ok"
    THEN LET tuple == parseCountAndValue(get.value) IN
         [reference_count |-> tuple.ref_count,
          status |-> get.status,
          stored_value |-> tuple.saved_value]
    ELSE [reference_count |-> U32(0),
          status |-> "NotFound",
          stored_value |-> <<>>]

(***************************************************************************)
(* Frames and results.                                                     *)
(***************************************************************************)
NoResults == [reference_count |-> U32(0), status |-> "none", stored_value |-> <<>>]

\* what the engine held for a key, and what it answered, when an operation read it
Seen(store, key, gs) ==
    [found |-> key \in DOMAIN store,
     bytes |-> IF key \in DOMAIN store THEN store[key] ELSE <<>>,
     engine |-> EngineGet(store, key, gs).status]

NoSeen == [found |-> FALSE, bytes |-> <<>>, engine |-> "none"]

NoCall ==
    [op |-> "none", key |-> <<>>, arg |-> <<>>, results |-> NoResults,
     kind |-> "none", count |-> U32(0), value |-> <<>>, seen |-> NoSeen]

NoRes ==
    [op |-> "none", key |-> <<>>, arg |-> <<>>, results |-> NoResults,
     reference_count |-> U32(0), status |-> "none", stored_value |-> <<>>,
     seen |-> NoSeen]

NoTxn == [state |-> "none", key |-> <<>>]

Frame(op, key, arg, results, kind, count, value, seen) ==
    [op |-> op, key |-> key, arg |-> arg, results |-> results,
     kind |-> kind, count |-> count, value |-> value, seen |-> seen]

Result(frame, count, status, stored) ==
    [op |-> frame.op, key |-> frame.key, arg |-> frame.arg,
     results |-> frame.results,
     reference_count |-> count, status |-> status, stored_value |-> stored,
     seen |-> frame.seen]

Running == crashed = "none"

CanCall(t) == Running /\ pc[t] = "idle" /\ budget > 0

\* the operation goes on to its write
Proceed(t, frame) ==
    /\ pc' = [pc EXCEPT ![t] = "makeTransaction"]
    /\ call' = [call EXCEPT ![t] = frame]
    /\ res' = [res EXCEPT ![t] = NoRes]
    /\ budget' = budget - 1
    /\ UNCHANGED <<db, txn, crashed, net>>

\* the operation returns without a write
ReturnEarly(t, result) ==
    /\ res' = [res EXCEPT ![t] = result]
    /\ budget' = budget - 1
    /\ UNCHANGED <<db, pc, call, txn, crashed, net>>

\* a failed assertion terminates the process
Abort(t, which) ==
    /\ crashed' = which
    /\ pc' = [pc EXCEPT ![t] = "aborted"]

(***************************************************************************)
(* The public operations, up to and including their read.                  *)
(***************************************************************************)
\* an increment that adds two
incrementReference_updated_count_plus2(results) ==
    U32Inc(U32Inc(results.reference_count))

\* updated_count = results.reference_count + 1
incrementReference_updated_count(results) == U32Inc(results.reference_count)

\* an increment that does not look at the status of its read
incrementReference_found_unchecked(results) == TRUE

\* if (results.status.ok())
incrementReference_found(results) == results.status = "ok"

incrementReference(t, hash_key, gs) ==
    /\ CanCall(t)
    /\ LET results == getValue(db, hash_key, gs)
           seen == Seen(db, hash_key, gs) IN
       IF incrementReference_found(results)
       THEN Proceed(t, Frame("incrementReference", hash_key, <<>>, results, "put",
                             incrementReference_updated_count(results),
                             results.stored_value, seen))
       ELSE ReturnEarly(t, Result(
                Frame("incrementReference", hash_key, <<>>, results, "none",
                      U32(0), <<>>, seen),
                U32(0), results.status, <<>>))

\* a save that always writes a count of 1
saveValue_ref_count_reset(results) == U32(1)

\* ref_count = results.reference_count + 1, or 1 when the read was not ok.
\* The sum is taken in unsigned arithmetic, held in an int and converted back
\* to uint32_t by the call of saveValueWithRefCount: its value modulo 2^32.
saveValue_ref_count(results) ==
    IF results.status = "ok" THEN U32Inc(results.reference_count) ELSE U32(1)

\* a save without the content-address assertion
saveValue_assert_fails_never(results, value) == FALSE

\* assert(results.stored_value == value) fires
saveValue_assert_fails(results, value) ==
    results.status = "ok" /\ results.stored_value # value

saveValue(t, hash_key, value, gs) ==
    /\ CanCall(t)
    /\ LET results == getValue(db, hash_key, gs)
           seen == Seen(db, hash_key, gs) IN
       IF saveValue_assert_fails(results, value)
       THEN /\ Abort(t, "stored_value == value")
            /\ call' = [call EXCEPT ![t] =
                   Frame("saveValue", hash_key, value, results, "none",
                         U32(0), <<>>, seen)]
            /\ res' = [res EXCEPT ![t] = NoRes]
            /\ budget' = budget - 1
            /\ UNCHANGED <<db, txn, net>>
       ELSE Proceed(t, Frame("saveValue", hash_key, value, results, "put",
                             saveValue_ref_count(results), value, seen))

\* a delete that removes the record only at a count of 0
deleteValue_removes_below1(results) == U32Less(results.reference_count, 1)

\* results.reference_count < 2: the last reference is being released
deleteValue_removes(results) == U32Less(results.reference_count, 2)

\* a decrement that rewrites the count it read
deleteValue_updated_ref_count_same(results) == results.reference_count

\* updated_ref_count = results.reference_count - 1
deleteValue_updated_ref_count(results) == U32Dec(results.reference_count)

\* a delete that does not look at the status of its read
deleteValue_found_unchecked(results) == TRUE

\* if (results.status.ok())
deleteValue_found(results) == results.status = "ok"

deleteValue(t, hash_key, gs) ==
    /\ CanCall(t)
    /\ LET results == getValue(db, hash_key, gs)
           seen == Seen(db, hash_key, gs) IN
       IF deleteValue_found(results)
       THEN IF deleteValue_removes(results)
            THEN Proceed(t, Frame("deleteValue", hash_key, <<>>, results, "delete",
                                  U32(0), <<>>, seen))
            ELSE Proceed(t, Frame("deleteValue", hash_key, <<>>, results, "put",
                                  deleteValue_updated_ref_count(results),
                                  results.stored_value, seen))
       ELSE ReturnEarly(t, Result(
                Frame("deleteValue", hash_key, <<>>, results, "none",
                      U32(0), <<>>, seen),
                U32(0), results.status, <<>>))

\* a caller's getValue
CallGetValue(t, hash_key, gs) ==
    /\ CanCall(t)
    /\ LET results == getValue(db, hash_key, gs) IN
       ReturnEarly(t, Result(
           Frame("getValue", hash_key, <<>>, results, "none", U32(0), <<>>,
                 Seen(db, hash_key, gs)),
           results.reference_count, results.status, results.stored_value))

(***************************************************************************)
(* The write: saveValueWithRefCount -> saveKeyValuePair, or                *)
(* deleteKeyValuePair, each in a transaction of its own.                   *)
(***************************************************************************)
\* an entry that leaves the value out
saveValueWithRefCount_entry_no_value(frame) ==
    serializeCountAndValue(frame.count, <<>>)

\* updated_entry = serializeCountAndValue(updated_ref_count, value)
saveValueWithRefCount_entry(frame) ==
    serializeCountAndValue(frame.count, frame.value)

\* makeTransaction(): txn_db->BeginTransaction gives a fresh transaction
makeTransaction(t) ==
    /\ Running
    /\ pc[t] = "makeTransaction"
    /\ txn' = [txn EXCEPT ![t] = [state |-> "Created", key |-> <<>>]]
    /\ pc' = [pc EXCEPT ![t] = IF call[t].kind = "put" THEN "Put" ELSE "Delete"]
    /\ UNCHANGED <<db, call, res, crashed, net, budget>>

\* transaction->Put(key_str, value_str); assert(put_status.ok())
saveKeyValuePair_Put(t, es) ==
    /\ Running
    /\ pc[t] = "Put"
    /\ ~KeyLocked(t, call[t].key)
    /\ IF es = "ok"
       THEN /\ txn' = [txn EXCEPT ![t] = [state |-> "Written", key |-> call[t].key]]
            /\ pc' = [pc EXCEPT ![t] = "PutCommit"]
            /\ UNCHANGED crashed
       ELSE /\ Abort(t, "put_status.ok()")
            /\ UNCHANGED txn
    /\ UNCHANGED <<db, call, res, net, budget>>

\* transaction->Commit(); assert(commit_status.ok())
saveKeyValuePair_Commit(t, es) ==
    /\ Running
    /\ pc[t] = "PutCommit"
    /\ IF es = "ok"
       THEN /\ db' = EnginePut(db, call[t].key, saveValueWithRefCount_entry(call[t]))
            /\ txn' = [txn EXCEPT ![t].state = "Committed"]
            /\ pc' = [pc EXCEPT ![t] = "PutReturn"]
            /\ UNCHANGED crashed
       ELSE /\ Abort(t, "commit_status.ok()")
            /\ UNCHANGED <<db, txn>>
    /\ UNCHANGED <<call, res, net, budget>>

\* what the caller of saveValueWithRefCount hands back once the commit was ok:
\* SaveResults{updated_ref_count, status, hash_key}, which deleteValue turns
\* into DeleteResults{updated_ref_count, update_result.status}
saveValueWithRefCount_result(frame) ==
    Result(frame, frame.count, "ok", <<>>)

\* a return that keeps the committed transaction
saveValueWithRefCount_return_keeps_transaction(t) ==
    /\ Running
    /\ pc[t] = "PutReturn"
    /\ res' = [res EXCEPT ![t] = saveValueWithRefCount_result(call[t])]
    /\ net' = [net EXCEPT ![call[t].key] =
                  IF call[t].op = "deleteValue" THEN @ - 1 ELSE @ + 1]
    /\ call' = [call EXCEPT ![t] = NoCall]
    /\ pc' = [pc EXCEPT ![t] = "idle"]
    /\ UNCHANGED <<db, txn, crashed, budget>>

\* transaction.reset(); return commit_status; and the returns above it
saveValueWithRefCount_return(t) ==
    /\ Running
    /\ pc[t] = "PutReturn"
    /\ txn' = [txn EXCEPT ![t] = NoTxn]
    /\ res' = [res EXCEPT ![t] = saveValueWithRefCount_result(call[t])]
    /\ net' = [net EXCEPT ![call[t].key] =
                  IF call[t].op = "deleteValue" THEN @ - 1 ELSE @ + 1]
    /\ call' = [call EXCEPT ![t] = NoCall]
    /\ pc' = [pc EXCEPT ![t] = "idle"]
    /\ UNCHANGED <<db, crashed, budget>>

\* transaction->Delete(key_str); assert(delete_status.ok())
deleteKeyValuePair_Delete(t, es) ==
    /\ Running
    /\ pc[t] = "Delete"
    /\ ~KeyLocked(t, call[t].key)
    /\ IF es = "ok"
       THEN /\ txn' = [txn EXCEPT ![t] = [state |-> "Written", key |-> call[t].key]]
            /\ pc' = [pc EXCEPT ![t] = "DeleteCommit"]
            /\ UNCHANGED crashed
       ELSE /\ Abort(t, "delete_status.ok()")
            /\ UNCHANGED txn
    /\ UNCHANGED <<db, call, res, net, budget>>

\* transaction->Commit(); assert(commit_status.ok())
deleteKeyValuePair_Commit(t, es) ==
    /\ Running
    /\ pc[t] = "DeleteCommit"
    /\ IF es = "ok"
       THEN /\ db' = EngineDelete(db, call[t].key)
            /\ txn' = [txn EXCEPT ![t].state = "Committed"]
            /\ pc' = [pc EXCEPT ![t] = "DeleteReturn"]
            /\ UNCHANGED crashed
       ELSE /\ Abort(t, "commit_status.ok()")
            /\ UNCHANGED <<db, txn>>
    /\ UNCHANGED <<call, res, net, budget>>

\* DeleteResults{0, delete_status}
deleteValue_result(frame) ==
    Result(frame, U32(0), "ok", <<>>)

\* transaction.reset(); return commit_status; return DeleteResults{0, ...}
deleteValue_return(t) ==
    /\ Running
    /\ pc[t] = "DeleteReturn"
    /\ txn' = [txn EXCEPT ![t] = NoTxn]
    /\ res' = [res EXCEPT ![t] = deleteValue_result(call[t])]
    /\ net' = [net EXCEPT ![call[t].key] = @ - 1]
    /\ call' = [call EXCEPT ![t] = NoCall]
    /\ pc' = [pc EXCEPT ![t] = "idle"]
    /\ UNCHANGED <<db, crashed, budget>>

(***************************************************************************)
(* Initial states.  The constructor opens whatever database is at db_path  *)
(* (create_if_missing): none, or one an earlier run filled.  Records are   *)
(* always written by serializeCountAndValue.                               *)
(***************************************************************************)
StartCounts ==
    {U32(n) : n \in 1..MaxStart} \cup {U32FromTop(n) : n \in 0..TopWindow}

StartRecords ==
    {serializeCountAndValue(c, v) : c \in StartCounts, v \in Values}

StartStores ==
    UNION {[D -> StartRecords] : D \in SUBSET Keys}

InitRest(n) ==
    /\ pc = [t \in Threads |-> "idle"]
    /\ call = [t \in Threads |-> NoCall]
    /\ txn = [t \in Threads |-> NoTxn]
    /\ res = [t \in Threads |-> NoRes]
    /\ crashed = "none"
    /\ net = [k \in Keys |-> 0]
    /\ budget = n

Init ==
    /\ db \in StartStores
    /\ InitRest(MaxOps)

\* a fresh db_path: the engine creates an empty database
InitFresh ==
    /\ db = [k \in {} |-> <<>>]
    /\ InitRest(MaxOps)

InitConc ==
    /\ db \in StartStores
    /\ InitRest(MaxConcOps)

(***************************************************************************)
(* Next-state relations: the threads in T run, and every engine            *)
(* interaction ends with an outcome in S.                                  *)
(***************************************************************************)
Step(T, S) ==
    \/ \E t \in T, k \in Keys, gs \in S : incrementReference(t, k, gs)
    \/ \E t \in T, k \in Keys, v \in Values, gs \in S : saveValue(t, k, v, gs)
    \/ \E t \in T, k \in Keys, gs \in S : deleteValue(t, k, gs)
    \/ \E t \in T, k \in Keys, gs \in S : CallGetValue(t, k, gs)
    \/ \E t \in T : makeTransaction(t)
    \/ \E t \in T, es \in S : saveKeyValuePair_Put(t, es)
    \/ \E t \in T, es \in S : saveKeyValuePair_Commit(t, es)
    \/ \E t \in T : saveValueWithRefCount_return(t)
    \/ \E t \in T, es \in S : deleteKeyValuePair_Delete(t, es)
    \/ \E t \in T, es \in S : deleteKeyValuePair_Commit(t, es)
    \/ \E t \in T : deleteValue_return(t)

\* one caller, a working engine: operations run one after another
Next == Step({"t1"}, {"ok"})
Spec == Init /\ [][Next]_vars

\* one caller, an engine whose interactions may fail
NextFault == Step({"t1"}, EngineOutcomes)
SpecFault == InitFresh /\ [][NextFault]_vars

\* two callers with no serialization between them, a working engine
NextConc == Step(Threads, {"ok"})
SpecConc == InitConc /\ [][NextConc]_vars

\* one caller that only saves, on a fresh database, with a working engine
NextSaves ==
    \/ \E k \in Keys, v \in Values : saveValue("t1", k, v, "ok")
    \/ makeTransaction("t1")
    \/ saveKeyValuePair_Put("t1", "ok")
    \/ saveKeyValuePair_Commit("t1", "ok")
    \/ saveValueWithRefCount_return("t1")
SpecSaves == InitFresh /\ [][NextSaves]_vars

(***************************************************************************)
(* Vocabulary of the properties.                                           *)
(***************************************************************************)
StoredCount(store, k) == parseCountAndValue(store[k]).ref_count
StoredValue(store, k) == parseCountAndValue(store[k]).saved_value

\* no operation is in progress
Quiescent == Running /\ \A t \in Threads : pc[t] = "idle"

\* what getValue reports for a key that has no record
NotFoundResults ==
    [reference_count |-> U32(0), status |-> "NotFound", stored_value |-> <<>>]

\* n = c + 1 as numbers, without wrap-around
U32IsSucc(n, c) ==
    \/ c.lo < Half - 1 /\ n = [hi |-> c.hi, lo |-> c.lo + 1]
    \/ c.lo = Half - 1 /\ c.hi < Half - 1 /\ n = [hi |-> c.hi + 1, lo |-> 0]

\* the count and the value an operation found stored when it read its key
SeenCount(r) == parseCountAndValue(r.seen.bytes).ref_count
SeenValue(r) == parseCountAndValue(r.seen.bytes).saved_value

(***************************************************************************)
(* C1.  A record exists for a key iff its stored reference count is at     *)
(* least 1: no operation leaves a stored record whose count is 0.          *)
(***************************************************************************)
C1_RecordIffCountAtLeastOne ==
    \A k \in Keys :
        (k \in DOMAIN db) <=> ~U32Less(getValue(db, k, "ok").reference_count, 1)

(***************************************************************************)
(* C2.  Between operations that run one after another, the stored count of *)
(* a key is the number of successful saveValue and incrementReference      *)
(* calls on it minus the number of successful deleteValue calls, and the   *)
(* record is absent exactly when that number is 0.                         *)
(***************************************************************************)
C2_CountIsSavesMinusDeletes ==
    Quiescent =>
        \A k \in Keys :
            /\ net[k] >= 0
            /\ (k \in DOMAIN db) <=> (net[k] >= 1)
            /\ getValue(db, k, "ok").reference_count = U32(net[k])

(***************************************************************************)
(* C3.  Two incrementReference calls on one key that both read the count c *)
(* and both return ok leave the stored count at c + 1, and both report     *)
(* c + 1: one of the two references is lost.                               *)
(***************************************************************************)
C3_LostUpdate ==
    \A k \in Keys :
        LET a == res["t1"]
            b == res["t2"]
            c == a.results.reference_count
        IN  ( /\ a.op = "incrementReference" /\ b.op = "incrementReference"
              /\ a.key = k /\ b.key = k
              /\ a.status = "ok" /\ b.status = "ok"
              /\ b.results.reference_count = c
              /\ c # U32Max )
            => /\ k \in DOMAIN db
               /\ U32IsSucc(StoredCount(db, k), c)
               /\ a.reference_count = StoredCount(db, k)
               /\ b.reference_count = StoredCount(db, k)

\* both increments of a count of 1 are the only operations invoked, both
\* succeeded, and the stored count is 2
C3_Witness ==
    \E k \in Keys :
        /\ res["t1"].op = "incrementReference" /\ res["t2"].op = "incrementReference"
        /\ res["t1"].key = k /\ res["t2"].key = k
        /\ res["t1"].status = "ok" /\ res["t2"].status = "ok"
        /\ res["t1"].results.reference_count = U32(1)
        /\ res["t2"].results.reference_count = U32(1)
        /\ net[k] = 2
        /\ budget = MaxConcOps - 2
        /\ StoredCount(db, k) = U32(2)

(***************************************************************************)
(* C4.  The value bytes of a key's record never change while the record    *)
(* exists, in every execution (the content-address assertion stops the     *)
(* process before any write).                                              *)
(***************************************************************************)
C4_ValueImmutable ==
    [][\A k \in Keys :
          (k \in DOMAIN db /\ k \in DOMAIN db')
              => StoredValue(db', k) = StoredValue(db, k)]_vars

(***************************************************************************)
(* C5.  An engine read failure other than key-absent reaches the caller of *)
(* getValue, incrementReference, saveValue or deleteValue unchanged: it is *)
(* never reported as NotFound or as ok.                                    *)
(***************************************************************************)
C5_EngineStatusPassedThrough ==
    \A t \in Threads :
        (res[t].op # "none" /\ res[t].seen.engine \in EngineFailures)
            => res[t].status = res[t].seen.engine

(***************************************************************************)
(* C6.  On a key that starts absent, the N-th saveValue in a row with the  *)
(* same value returns ok, reports count N and leaves count N stored.       *)
(* Under SpecSaves net[k] is the number of saveValue calls on k that       *)
(* returned.                                                               *)
(***************************************************************************)
C6_SaveNTimes ==
    Quiescent =>
        \A k \in Keys :
            /\ getValue(db, k, "ok").reference_count = U32(net[k])
            /\ (res["t1"].op = "saveValue" /\ res["t1"].key = k)
                   => /\ res["t1"].status = "ok"
                      /\ res["t1"].reference_count = U32(net[k])
                      /\ StoredValue(db, k) = res["t1"].arg

\* the third save in a row has returned
C6_Witness ==
    /\ Quiescent
    /\ res["t1"].op = "saveValue"
    /\ net[res["t1"].key] = 3
    /\ res["t1"].reference_count = U32(3)
    /\ StoredCount(db, res["t1"].key) = U32(3)

(***************************************************************************)
(* C7.  saveValue with a value that differs from the stored one ends in    *)
(* the content-address assertion: the process stops, nothing is written    *)
(* (the record keeps its count and value) and no result is returned.       *)
(***************************************************************************)
C7_MismatchedSaveAborts ==
    \A t \in Threads :
        /\ ( /\ call[t].op = "saveValue"
             /\ call[t].seen.found
             /\ SeenValue(call[t]) # call[t].arg )
           => /\ crashed = "stored_value == value"
              /\ pc[t] = "aborted"
              /\ res[t] = NoRes
              /\ call[t].key \in DOMAIN db
              /\ db[call[t].key] = call[t].seen.bytes
        /\ res[t].op = "saveValue"
           => ~(res[t].seen.found /\ SeenValue(res[t]) # res[t].arg)

\* a save with a differing value has stopped the process
C7_Witness ==
    \E t \in Threads :
        /\ crashed = "stored_value == value"
        /\ pc[t] = "aborted"
        /\ call[t].op = "saveValue"
        /\ call[t].seen.found
        /\ SeenValue(call[t]) # call[t].arg
        /\ db[call[t].key] = call[t].seen.bytes

(***************************************************************************)
(* C8.  incrementReference on a key with no record returns NotFound with   *)
(* count 0 and leaves the store as it was: no record is created and a      *)
(* following getValue reports not-found.                                   *)
(***************************************************************************)
C8_IncrementAbsent ==
    [][\A t \in Threads :
          ( /\ res'[t] # res[t]
            /\ res'[t].op = "incrementReference"
            /\ ~res'[t].seen.found )
          => /\ res'[t].status = "NotFound"
             /\ res'[t].reference_count = U32(0)
             /\ db' = db
             /\ res'[t].key \notin DOMAIN db'
             /\ getValue(db', res'[t].key, "ok") = NotFoundResults]_vars

\* an increment of an absent key has returned
C8_Witness ==
    \E t \in Threads :
        /\ res[t].op = "incrementReference"
        /\ ~res[t].seen.found
        /\ res[t].status = "NotFound"
        /\ res[t].key \notin DOMAIN db

(***************************************************************************)
(* C9.  incrementReference on a record with count c >= 1 and value v       *)
(* returns ok, reports c + 1 and leaves (c + 1, v) stored.                 *)
(***************************************************************************)
C9_IncrementExisting ==
    \A t \in Threads :
        ( /\ res[t].op = "incrementReference"
          /\ res[t].seen.found
          /\ ~U32Less(SeenCount(res[t]), 1) )
        => /\ res[t].status = "ok"
           /\ U32IsSucc(res[t].reference_count, SeenCount(res[t]))
           /\ res[t].key \in DOMAIN db
           /\ StoredCount(db, res[t].key) = res[t].reference_count
           /\ StoredValue(db, res[t].key) = SeenValue(res[t])

(***************************************************************************)
(* C10.  deleteValue on a record whose count is at most 1 removes the      *)
(* record and reports count 0 with status ok; a following getValue reports *)
(* not-found with count 0 and an empty value.                              *)
(***************************************************************************)
C10_DeleteLastReference ==
    \A t \in Threads :
        ( /\ res[t].op = "deleteValue"
          /\ res[t].seen.found
          /\ U32Less(SeenCount(res[t]), 2) )
        => /\ res[t].status = "ok"
           /\ res[t].reference_count = U32(0)
           /\ res[t].key \notin DOMAIN db
           /\ getValue(db, res[t].key, "ok") = NotFoundResults

\* the delete of a record with count 1 has returned
C10_Witness ==
    \E t \in Threads :
        /\ res[t].op = "deleteValue"
        /\ res[t].seen.found
        /\ SeenCount(res[t]) = U32(1)
        /\ res[t].status = "ok"
        /\ res[t].key \notin DOMAIN db

\* n = c - 1 as numbers, without wrap-around
U32IsPred(n, c) == U32IsSucc(c, n)

(***************************************************************************)
(* C11.  deleteValue on a record with count c > 1 and value v rewrites the *)
(* record as (c - 1, v) and reports c - 1; a following getValue returns    *)
(* found with count c - 1 and the value v.                                 *)
(***************************************************************************)
C11_DeleteAboveOne ==
    \A t \in Threads :
        ( /\ res[t].op = "deleteValue"
          /\ res[t].seen.found
          /\ ~U32Less(SeenCount(res[t]), 2) )
        => /\ res[t].status = "ok"
           /\ U32IsPred(res[t].reference_count, SeenCount(res[t]))
           /\ res[t].key \in DOMAIN db
           /\ db[res[t].key] =
                  serializeCountAndValue(res[t].reference_count, SeenValue(res[t]))
           /\ getValue(db, res[t].key, "ok") =
                  [reference_count |-> res[t].reference_count,
                   status |-> "ok",
                   stored_value |-> SeenValue(res[t])]

\* a delete of a record with count 2 and a non-empty value has returned
C11_Witness ==
    \E t \in Threads :
        /\ res[t].op = "deleteValue"
        /\ res[t].seen.found
        /\ SeenCount(res[t]) = U32(2)
        /\ SeenValue(res[t]) = <<7>>
        /\ res[t].status = "ok"
        /\ U32IsPred(res[t].reference_count, SeenCount(res[t]))

(***************************************************************************)
(* C12.  deleteValue on a key with no record returns NotFound with count 0 *)
(* and leaves the store unchanged: it begins no transaction and issues no  *)
(* Put or Delete.                                                          *)
(***************************************************************************)
C12_DeleteAbsent ==
    [][\A t \in Threads :
          ( /\ res'[t] # res[t]
            /\ res'[t].op = "deleteValue"
            /\ ~res'[t].seen.found )
          => /\ res'[t].status = "NotFound"
             /\ res'[t].reference_count = U32(0)
             /\ db' = db
             /\ txn' = txn
             /\ pc[t] = "idle"
             /\ res'[t].key \notin DOMAIN db']_vars

\* a delete of an absent key has returned
C12_Witness ==
    \E t \in Threads :
        /\ res[t].op = "deleteValue"
        /\ ~res[t].seen.found
        /\ res[t].status = "NotFound"
        /\ res[t].reference_count = U32(0)
        /\ res[t].key \notin DOMAIN db

(***************************************************************************)
(* C13.  After one saveValue(k, v) on a key that was absent, for every     *)
(* value v (the empty one included), the call has returned count 1 with    *)
(* status ok and getValue(k) returns found with count 1 and the value v.   *)
(***************************************************************************)
C13_SaveOnceThenGet ==
    \A t \in Threads :
        (res[t].op = "saveValue" /\ ~res[t].seen.found)
        => /\ res[t].status = "ok"
           /\ res[t].reference_count = U32(1)
           /\ getValue(db, res[t].key, "ok") =
                  [reference_count |-> U32(1),
                   status |-> "ok",
                   stored_value |-> res[t].arg]

\* a first save of the empty value has returned
C13_Witness ==
    \E t \in Threads :
        /\ res[t].op = "saveValue"
        /\ ~res[t].seen.found
        /\ res[t].arg = <<>>
        /\ res[t].status = "ok"
        /\ db[res[t].key] = <<1, 0, 0, 0>>

(***************************************************************************)
(* A caller that never names the key NeverSaved in a save, an increment or *)
(* a delete, on a store that opens without a record for it.                *)
(***************************************************************************)
NeverSaved == <<1>>
OtherKeys == Keys \ {NeverSaved}

InitOther ==
    /\ db \in {st \in StartStores : NeverSaved \notin DOMAIN st}
    /\ InitRest(MaxOps)

NextOther ==
    \/ \E k \in OtherKeys : incrementReference("t1", k, "ok")
    \/ \E k \in OtherKeys, v \in Values : saveValue("t1", k, v, "ok")
    \/ \E k \in OtherKeys : deleteValue("t1", k, "ok")
    \/ \E k \in Keys : CallGetValue("t1", k, "ok")
    \/ makeTransaction("t1")
    \/ saveKeyValuePair_Put("t1", "ok")
    \/ saveKeyValuePair_Commit("t1", "ok")
    \/ saveValueWithRefCount_return("t1")
    \/ deleteKeyValuePair_Delete("t1", "ok")
    \/ deleteKeyValuePair_Commit("t1", "ok")
    \/ deleteValue_return("t1")
SpecOther == InitOther /\ [][NextOther]_vars

(***************************************************************************)
(* C14.  A key that was never saved has no record in any state reached by  *)
(* operations on other keys, and every getValue on it reports not-found    *)
(* with count 0 and an empty value.                                        *)
(***************************************************************************)
C14_NeverSavedNotFound ==
    /\ NeverSaved \notin DOMAIN db
    /\ getValue(db, NeverSaved, "ok") = NotFoundResults
    /\ (res["t1"].op = "getValue" /\ res["t1"].key = NeverSaved)
           => /\ res["t1"].status = "NotFound"
              /\ res["t1"].reference_count = U32(0)
              /\ res["t1"].stored_value = <<>>

\* getValue on the never-saved key has returned after saves on another key
C14_Witness ==
    /\ res["t1"].op = "getValue"
    /\ res["t1"].key = NeverSaved
    /\ res["t1"].status = "NotFound"
    /\ \E k \in OtherKeys : k \in DOMAIN db /\ net[k] >= 2

(***************************************************************************)
(* The record encoding on its own: a saveValueWithRefCount(count, k,       *)
(* value) is about to write, for counts over the whole uint32_t range and  *)
(* values of up to MaxValueLen bytes; the write encodes and a getValue     *)
(* decodes.                                                                *)
(***************************************************************************)
MaxValueLen == 2

CodecBytes == {0, 7, 255}

CodecValues == UNION {[1..n -> CodecBytes] : n \in 0..MaxValueLen}

CodecCounts ==
    {U32(0), U32(1), U32(255), U32(256), U32(Half - 1),
     [hi |-> 1, lo |-> 0], [hi |-> 258, lo |-> 772], U32FromTop(1), U32Max}

InitCodec ==
    /\ db = [k \in {} |-> <<>>]
    /\ \E k \in Keys, c \in CodecCounts, v \in CodecValues :
           call = [t \in Threads |->
                      IF t = "t1"
                      THEN Frame("saveValue", k, v, NoResults, "put", c, v, NoSeen)
                      ELSE NoCall]
    /\ pc = [t \in Threads |-> IF t = "t1" THEN "makeTransaction" ELSE "idle"]
    /\ txn = [t \in Threads |-> NoTxn]
    /\ res = [t \in Threads |-> NoRes]
    /\ crashed = "none"
    /\ net = [k \in Keys |-> 0]
    /\ budget = 1

NextCodec ==
    \/ makeTransaction("t1")
    \/ saveKeyValuePair_Put("t1", "ok")
    \/ saveKeyValuePair_Commit("t1", "ok")
    \/ saveValueWithRefCount_return("t1")
    \/ \E k \in Keys : CallGetValue("t1", k, "ok")
SpecCodec == InitCodec /\ [][NextCodec]_vars

(***************************************************************************)
(* C15.  The record encoding round-trips: decoding the encoding of         *)
(* (count, value) gives (count, value) back, for every count (0 and        *)
(* 2^32 - 1 included) and every value (the empty one included), both as    *)
(* functions and through the store.                                        *)
(***************************************************************************)
C15_RoundTrip ==
    \A t \in Threads :
        /\ call[t].kind = "put"
           => parseCountAndValue(
                  serializeCountAndValue(call[t].count, call[t].value))
              = [ref_count |-> call[t].count, saved_value |-> call[t].value]
        /\ (res[t].op = "saveValue" /\ res[t].status = "ok")
           => getValue(db, res[t].key, "ok") =
                  [reference_count |-> res[t].reference_count,
                   status |-> "ok",
                   stored_value |-> res[t].arg]

\* count 0 with the empty value has been written and read back
C15_Witness ==
    /\ res["t1"].op = "saveValue"
    /\ res["t1"].reference_count = U32(0)
    /\ res["t1"].arg = <<>>
    /\ db[res["t1"].key] = <<0, 0, 0, 0>>
    /\ getValue(db, res["t1"].key, "ok").stored_value = <<>>

(***************************************************************************)
(* C16.  saveValue writes a record with count 1 only when the engine holds *)
(* no record for the key: a record with count c >= 1 that exists when      *)
(* saveValue is called is never replaced by a record with count 1, also    *)
(* when the engine's read fails.                                           *)
(***************************************************************************)
C16_SaveNeverResetsCount ==
    \A t \in Threads :
        /\ ( /\ call[t].op = "saveValue"
             /\ call[t].seen.found
             /\ ~U32Less(SeenCount(call[t]), 1) )
           => call[t].count # U32(1)
        /\ ( /\ res[t].op = "saveValue"
             /\ res[t].seen.found
             /\ ~U32Less(SeenCount(res[t]), 1) )
           => StoredCount(db, res[t].key) # U32(1)

(***************************************************************************)
(* C17.  Every mutation that reaches its write begins a transaction of its *)
(* own, issues one Put or one Delete on its own key in it, commits it once *)
(* and releases it before returning: a transaction goes none -> Created -> *)
(* Written -> Committed -> none, the store changes only in the commit of   *)
(* the transaction that wrote the key, and no caller is back from an       *)
(* operation while its transaction exists.                                 *)
(***************************************************************************)
TxnMoves ==
    {<<"none", "Created">>, <<"Created", "Written">>,
     <<"Written", "Committed">>, <<"Committed", "none">>}

C17_TransactionLifecycle ==
    [][/\ \A t \in Threads :
             \* one step at a time along the life of a transaction
             /\ txn'[t] # txn[t] => <<txn[t].state, txn'[t].state>> \in TxnMoves
             \* begun by an operation that is at its write, with nothing open
             /\ (txn[t].state = "none" /\ txn'[t].state = "Created")
                    => pc[t] = "makeTransaction" /\ call[t].kind \in {"put", "delete"}
             \* the one Put or Delete is on the operation's own key
             /\ txn'[t].state \in {"Written", "Committed"}
                    => txn'[t].key = call'[t].key
             \* the commit applies exactly the operation's write
             /\ (txn[t].state = "Written" /\ txn'[t].state = "Committed")
                    => db' = IF call[t].kind = "put"
                             THEN EnginePut(db, call[t].key,
                                      serializeCountAndValue(call[t].count,
                                                             call[t].value))
                             ELSE EngineDelete(db, call[t].key)
             \* released on return, after its commit
             /\ (pc[t] # "idle" /\ pc'[t] = "idle")
                    => txn[t].state = "Committed" /\ txn'[t] = NoTxn
             /\ pc'[t] = "idle" => txn'[t] = NoTxn
       \* the store changes in commits only
       /\ db' # db
              => \E u \in Threads :
                     txn[u].state = "Written" /\ txn'[u].state = "Committed"]_vars

\* two transactions exist at once, one committed and not yet released, the
\* other created by a later mutation
C17_Witness ==
    /\ txn["t1"].state = "Committed"
    /\ txn["t2"].state = "Created"
    /\ pc["t1"] = "PutReturn"
    /\ call["t1"].key \in DOMAIN db

(***************************************************************************)
(* The lifetime of the store object.  crashed = "destroyed" stands for the *)
(* time between the destructor and the next construction on the same       *)
(* db_path, when no operation can be called.                               *)
(***************************************************************************)
\* a teardown that leaves the database files in place
DestroyDB_keeps(store) == store

\* DestroyDB(txn_db_path, rocksdb::Options()): the database at the path is gone
DestroyDB(store) == [k \in {} |-> <<>>]

\* ~CheckpointStorage(): txn_db->Close(); DestroyDB(...); it runs when no
\* operation is in progress
CheckpointStorage_destroy ==
    /\ Quiescent
    /\ db' = DestroyDB(db)
    /\ crashed' = "destroyed"
    /\ UNCHANGED <<pc, call, txn, res, net, budget>>

\* CheckpointStorage(db_path) on the same path: create_if_missing opens what
\* is there, or creates an empty database
CheckpointStorage_construct ==
    /\ crashed = "destroyed"
    /\ crashed' = "none"
    /\ net' = [k \in Keys |-> 0]
    /\ UNCHANGED <<db, pc, call, txn, res, budget>>

NextLife ==
    \/ Next
    \/ CheckpointStorage_destroy
    \/ CheckpointStorage_construct
SpecLife == Init /\ [][NextLife]_vars

(***************************************************************************)
(* C18.  Destroying the store destroys the on-disk database: once the      *)
(* destructor has run nothing is stored, and after the next construction   *)
(* on the same path getValue reports not-found for every key, whatever the *)
(* keys held before.                                                       *)
(***************************************************************************)
C18_DestroyedOnTeardown ==
    [][/\ crashed' = "destroyed" => DOMAIN db' = {}
       /\ (crashed = "destroyed" /\ crashed' = "none")
              => \A k \in Keys : getValue(db', k, "ok") = NotFoundResults]_vars

\* a store that was destroyed after a successful save and constructed again:
\* the saved key has no record
C18_Witness ==
    /\ crashed = "none"
    /\ res["t1"].op = "saveValue"
    /\ res["t1"].status = "ok"
    /\ net[res["t1"].key] = 0
    /\ res["t1"].key \notin DOMAIN db
    /\ getValue(db, res["t1"].key, "ok") = NotFoundResults

(***************************************************************************)
(* Two concurrent callers on different keys: each caller names one key of  *)
(* its own in every operation, on a fresh database with a working engine.  *)
(***************************************************************************)
KeyOf(t) == IF t = "t1" THEN <<1>> ELSE <<2>>

NextDisjoint ==
    \/ \E t \in Threads : incrementReference(t, KeyOf(t), "ok")
    \/ \E t \in Threads, v \in Values : saveValue(t, KeyOf(t), v, "ok")
    \/ \E t \in Threads : deleteValue(t, KeyOf(t), "ok")
    \/ \E t \in Threads : CallGetValue(t, KeyOf(t), "ok")
    \/ \E t \in Threads : makeTransaction(t)
    \/ \E t \in Threads : saveKeyValuePair_Put(t, "ok")
    \/ \E t \in Threads : saveKeyValuePair_Commit(t, "ok")
    \/ \E t \in Threads : saveValueWithRefCount_return(t)
    \/ \E t \in Threads : deleteKeyValuePair_Delete(t, "ok")
    \/ \E t \in Threads : deleteKeyValuePair_Commit(t, "ok")
    \/ \E t \in Threads : deleteValue_return(t)
SpecDisjoint == InitFresh /\ [][NextDisjoint]_vars

\* the record of a key: whether there is one, and its bytes
RecordOf(store, k) ==
    [found |-> k \in DOMAIN store,
     bytes |-> IF k \in DOMAIN store THEN store[k] ELSE <<>>]

\* the store with every record but the one of k taken away
OnlyKey(store, k) == [x \in DOMAIN store \cap {k} |-> store[x]]

(***************************************************************************)
(* C19.  Every operation touches only the record of its own key: a step    *)
(* changes the record of a key only in the commit of an operation called   *)
(* with that key, getValue changes nothing, and what an operation reads    *)
(* does not depend on the other records.  So with concurrent callers on    *)
(* different keys every operation reads the record its caller's previous   *)
(* operation left, and counts and results are those of running the         *)
(* operations one after another: the stored count of a key is the number   *)
(* of successful saves and increments on it minus the successful deletes.  *)
(***************************************************************************)
C19_OwnKeyOnly ==
    [][/\ \A k \in Keys :
             RecordOf(db', k) # RecordOf(db, k)
                 => \E t \in Threads :
                        /\ call[t].key = k
                        /\ pc[t] \in {"PutCommit", "DeleteCommit"}
                        /\ pc'[t] # pc[t]
       /\ \A t \in Threads :
             /\ (res'[t] # res[t] /\ res'[t].op = "getValue") => db' = db
             /\ (pc[t] = "idle" /\ pc'[t] = "makeTransaction")
                    => /\ call'[t].results =
                              getValue(OnlyKey(db, call'[t].key), call'[t].key, "ok")
                       /\ call'[t].seen.bytes =
                              IF net[call'[t].key] = 0 THEN <<>>
                              ELSE serializeCountAndValue(
                                       U32(net[call'[t].key]), call'[t].results.stored_value)
             /\ (res'[t] # res[t] /\ res'[t].op # "none" /\ pc[t] = "idle")
                    => res'[t].results =
                           getValue(OnlyKey(db, res'[t].key), res'[t].key, "ok")
       /\ (\A t \in Threads : pc'[t] = "idle" /\ crashed' = "none")
              => \A k \in Keys :
                     /\ getValue(db', k, "ok").reference_count = U32(net'[k])
                     /\ (k \in DOMAIN db') <=> (net'[k] >= 1)]_vars

\* both callers have a result, each for its own key, and the two keys hold
\* different counts
C19_Witness ==
    /\ res["t1"].op = "incrementReference" /\ res["t1"].status = "ok"
    /\ res["t2"].op = "deleteValue" /\ res["t2"].status = "ok"
    /\ <<1>> \in DOMAIN db
    /\ <<2>> \notin DOMAIN db
    /\ StoredCount(db, <<1>>) = U32(2)

(***************************************************************************)
(* C20.  The count an operation reports matches the store: after           *)
(* saveValue, incrementReference or deleteValue returned ok with count n   *)
(* (and nothing ran since), getValue on the key returns count n, found     *)
(* when n >= 1 and not-found when n = 0; an operation that returns a       *)
(* status other than ok reports count 0.                                   *)
(***************************************************************************)
C20_ReportedCountMatchesStore ==
    \A t \in Threads :
        res[t].op \in {"saveValue", "incrementReference", "deleteValue"}
        => IF res[t].status = "ok"
           THEN LET get == getValue(db, res[t].key, "ok") IN
                /\ get.reference_count = res[t].reference_count
                /\ U32Less(res[t].reference_count, 1) => get.status = "NotFound"
                /\ ~U32Less(res[t].reference_count, 1) => get.status = "ok"
           ELSE res[t].reference_count = U32(0)

====
